---- MODULE Spec2Model ----
(***************************************************************************)
(* Model of table-allocations (src/main.go, the plus-ones version that     *)
(* starts at line 260): simulated annealing over seating assignments with  *)
(* a ladder of annealers at temperatures baseTemperature * 2^i.            *)
(*                                                                         *)
(* A person is a record [Name, Preferences]; a table is a record           *)
(* [capacity, people, peopleMap] where peopleMap is the set of keys of the *)
(* Go map (every stored value is true); an assignment is a sequence of     *)
(* tables.  Go indices are 0-based, the sequences here are 1-based.        *)
(***************************************************************************)
EXTENDS Integers, Sequences, FiniteSets, TLC

(***************************************************************************)
(* Bounds of the model: the values of the flags -a, -i and -s and the      *)
(* number of cooling rounds the temperatures allow.                        *)
(***************************************************************************)
\* -a: concurrentAnnealerCount, the ladder size
LadderSize == 2
\* -i: internalIterations
InternalIterations == 2
\* -s: swapCount
SwapCount == 1
\* the number of cooling rounds: -b is 2^MaxRounds times -e and -c is 0.5, so
\* that every product baseTemperature * coolingRate is exact
MaxRounds == 2

\* the numeric flags -b, -e and -c.  A temperature is a whole number of
\* units; the unit is the float64 1.0 ("one") or the smallest positive
\* float64, 2^-1074 ("denormal").  Here -b 2^MaxRounds -e 1 -c 0.5.
flagValues ==
  [baseTemperature |-> 2 ^ MaxRounds, endTemperature |-> 1,
   coolingRate |-> [num |-> 1, den |-> 2], unit |-> "one"]

\* -b 1 -e 1 -c 0.5: the base temperature is not above the final one
zeroRoundFlags ==
  [baseTemperature |-> 1, endTemperature |-> 1,
   coolingRate |-> [num |-> 1, den |-> 2], unit |-> "one"]

\* -b 2e-323 -e 5e-324 -c 0.75: four units and one unit of 2^-1074
denormalFlags ==
  [baseTemperature |-> 4, endTemperature |-> 1,
   coolingRate |-> [num |-> 3, den |-> 4], unit |-> "denormal"]

\* -b 2 -e 1 -c 1: a cooling rate outside the open interval (0, 1)
noCoolingFlags ==
  [baseTemperature |-> 2, endTemperature |-> 1,
   coolingRate |-> [num |-> 1, den |-> 1], unit |-> "one"]

\* the -m flag is absent from the command line
NoFlag == "(not given)"

\* the default the README gives for -m
DefaultCostFunctionSum == "sum"

\* the default of flag.String("m", ...)
DefaultCostFunction == "hybrid"

\* the command line: -m (or NoFlag), -a and the temperature flags t
CommandLine(m, a, t) == [m |-> m, a |-> a, t |-> t]

(***************************************************************************)
(* Data types (src/main.go:275-295)                                        *)
(***************************************************************************)
\* the zero value of `person`: what make([]person, n) fills a slice with
ZeroPerson == [Name |-> "", Preferences |-> <<>>]

Person(n, prefs) == [Name |-> n, Preferences |-> prefs]

PlusOne(a, b) == [PersonOne |-> a, PersonTwo |-> b]

(***************************************************************************)
(* The input files the model runs on (type problem).                       *)
(***************************************************************************)
Problems ==
  << \* 1: the four-person scenario of the specification
     [People   |-> << Person("A", <<"B">>), Person("B", <<"A">>),
                      Person("C", <<"D">>), Person("D", <<>>) >>,
      Tables   |-> <<2, 2>>,
      PlusOnes |-> <<>>],
     \* 2: one companion pair (A, B), tables of different capacity
     [People   |-> << Person("A", <<"C">>), Person("B", <<"A">>),
                      Person("C", <<"A", "B">>) >>,
      Tables   |-> <<2, 1>>,
      PlusOnes |-> << PlusOne("A", "B") >>],
     \* 3: more preferences than people (a preference may be repeated)
     [People   |-> << Person("A", <<"B", "B", "B", "B", "B">>),
                      Person("B", <<"C">>), Person("C", <<"B">>) >>,
      Tables   |-> <<2, 1>>,
      PlusOnes |-> <<>>],
     \* 4: a person whose name is the empty string
     [People   |-> << Person("", <<>>), Person("A", <<"">>),
                      Person("B", <<"A">>) >>,
      Tables   |-> <<2, 1>>,
      PlusOnes |-> <<>>],
     \* 5: A and C both declare B as their companion
     [People   |-> << Person("A", <<"B">>), Person("B", <<"A", "C">>),
                      Person("C", <<>>) >>,
      Tables   |-> <<2, 1>>,
      PlusOnes |-> << PlusOne("A", "B"), PlusOne("C", "B") >>],
     \* 6: three tables of one seat
     [People   |-> << Person("A", <<"A">>), Person("B", <<"A">>),
                      Person("C", <<>>) >>,
      Tables   |-> <<1, 1, 1>>,
      PlusOnes |-> <<>>],
     \* 7: fewer seats than people
     [People   |-> << Person("A", <<"B">>), Person("B", <<"A">>),
                      Person("C", <<"A">>) >>,
      Tables   |-> <<1, 1>>,
      PlusOnes |-> <<>>] >>

\* the inputs of the specification Spec
MainScenarios == {2, 3, 4, 5, 6}

CostFunctionNames == {"hybrid", "sum", "count"}

\* the command lines of the specification Spec: every objective and a
\* selector the switch does not know
MainFlags ==
  { CommandLine(m, LadderSize, flagValues) :
      m \in CostFunctionNames \cup {"bogus"} }

\* the inputs and command lines of the specification SpecInputs: seats that
\* match the head count and seats that do not; -m left out, given and
\* unknown; temperatures that cool in whole steps, that need no round, that
\* are subnormal, and a cooling rate of 1
InputScenarios == {2, 7}

InputFlags ==
  { CommandLine(m, LadderSize, t) :
      m \in {NoFlag, "sum", "count", "bogus"},
      t \in {flagValues, zeroRoundFlags, denormalFlags, noCoolingFlags} }

VARIABLES
  scenario,           \* which input file was read (index into Problems)
  flags,              \* the command line
  costFunctionPtr,    \* the -m flag
  pc,                 \* where main / anneal stands
  people,             \* problemContent.People (shuffled in place)
  initialSolution,    \* anneal's initialSolution
  annealerSolutions,  \* the ladder: one assignment per level
  annealerCosts,      \* the ladder: one score per level
  level,              \* anneal's loop variable i (0-based)
  baseTemperature,    \* anneal's baseTemperature, in units of endTemperature
  goroutines,         \* one annealerInternalIterator goroutine per level
  result,             \* the assignment anneal returned
  summary,            \* the three numbers printSolution printed
  addr                \* which slices and maps the assignments held refer to

vars == << scenario, flags, costFunctionPtr, pc, people, initialSolution,
           annealerSolutions, annealerCosts, level, baseTemperature,
           goroutines, result, summary, addr >>

(***************************************************************************)
(* Small helpers                                                           *)
(***************************************************************************)
RECURSIVE SeqSum(_)
SeqSum(s) == IF s = <<>> THEN 0 ELSE Head(s) + SeqSum(Tail(s))

Max(a, b) == IF a >= b THEN a ELSE b

\* the Go value of p.Tables / p.PlusOnes / p.People of the input read
problemContent == Problems[scenario]

\* main's loop over problemContent.PlusOnes: a later entry with the same
\* personOne overwrites an earlier one.  The map is a set of personOne keys
\* and a lookup.
RECURSIVE plusOnesMap(_)
plusOnesMap(list) ==
  IF list = <<>> THEN [keys |-> {}, val |-> <<>>]
  ELSE LET rest == plusOnesMap(SubSeq(list, 1, Len(list) - 1))
           p    == list[Len(list)]
       IN  [keys |-> rest.keys \cup {p.PersonOne},
            val  |-> (p.PersonOne :> p.PersonTwo) @@ rest.val]

plusOnes == plusOnesMap(problemContent.PlusOnes)

\* main's conversion of the capacities into table structs
initialTables ==
  [i \in 1..Len(problemContent.Tables) |->
     [capacity  |-> problemContent.Tables[i],
      people    |-> [k \in 1..problemContent.Tables[i] |-> ZeroPerson],
      peopleMap |-> {}]]

(***************************************************************************)
(* Assignments: randomInitialisation, copyAssignment, getNeighbour         *)
(***************************************************************************)
\* people[i], people[j] = people[j], people[i]
SwapElems(s, i, j) == [s EXCEPT ![i] = s[j], ![j] = s[i]]

\* the draws j := rand.Intn(i + 1) of the shuffle, one per index (1-based:
\* js[i] \in 1..i)
ShuffleChoices(n) == { js \in [1..n -> 1..n] : \A i \in 1..n : js[i] <= i }

\* the loop `for i := range people` of randomInitialisation, from index i on
RECURSIVE ShuffleFrom(_, _, _)
ShuffleFrom(p, js, i) ==
  IF i > Len(p) THEN p ELSE ShuffleFrom(SwapElems(p, i, js[i]), js, i + 1)

\* the value of pos when the fill loop reaches table i
RECURSIVE FillPos(_, _)
FillPos(tables, i) ==
  IF i = 1 THEN 0 ELSE FillPos(tables, i - 1) + tables[i - 1].capacity

\* the names the fill loop stores in the table's map.  The loop variable
\* `table` is a copy of assignment[i] made before assignment[i].people is
\* assigned, so `range table.people` walks the slice the table had on entry.
FilledNames(table) == { table.people[k].Name : k \in 1..Len(table.people) }

\* randomInitialisation(people, tables) with the shuffle's draws js: the
\* shuffled people (the caller's slice is shuffled in place) and the
\* assignment returned
randomInitialisation(p, tables, js) ==
  LET shuffled == ShuffleFrom(p, js, 1)
  IN  [people     |-> shuffled,
       assignment |->
         [i \in 1..Len(tables) |->
            [capacity  |-> tables[i].capacity,
             people    |-> SubSeq(shuffled, FillPos(tables, i) + 1,
                                  FillPos(tables, i) + tables[i].capacity),
             peopleMap |-> tables[i].peopleMap \cup FilledNames(tables[i])]]]

\* copy(dst, src) into a fresh slice of `capacity` zero persons
CopyPeople(capacity, src) ==
  [k \in 1..capacity |-> IF k <= Len(src) THEN src[k] ELSE ZeroPerson]

copyAssignment(initialAssignment) ==
  [i \in 1..Len(initialAssignment) |->
     [capacity  |-> initialAssignment[i].capacity,
      people    |-> CopyPeople(initialAssignment[i].capacity,
                               initialAssignment[i].people),
      peopleMap |-> initialAssignment[i].peopleMap]]

\* the largest capacity of an assignment's tables
RECURSIVE MaxCapacityFrom(_, _)
MaxCapacityFrom(a, i) ==
  IF i > Len(a) THEN 0 ELSE Max(a[i].capacity, MaxCapacityFrom(a, i + 1))

MaxCapacity(a) == MaxCapacityFrom(a, 1)

\* the four draws of one swap of getNeighbour (0-based, as rand.Intn returns
\* them; randTwo is the draw before the `randTwo++` adjustment)
SwapDraws(a) ==
  { d \in [randOne : 0..(Len(a) - 1), randTwo : 0..(Len(a) - 2),
           randThree : 0..(MaxCapacity(a) - 1),
           randFour : 0..(MaxCapacity(a) - 1)] :
      LET two == IF d.randTwo >= d.randOne THEN d.randTwo + 1 ELSE d.randTwo
      IN  /\ d.randThree < a[d.randOne + 1].capacity
          /\ d.randFour < a[two + 1].capacity }

\* SwapOnce with the second slot left as it was: personOne is lost and
\* personTwo sits at both tables
SwapOnceOneSided(n, d) ==
  LET one       == d.randOne + 1
      two       == (IF d.randTwo >= d.randOne THEN d.randTwo + 1
                    ELSE d.randTwo) + 1
      personOne == n[one].people[d.randThree + 1]
      personTwo == n[two].people[d.randFour + 1]
  IN  [n EXCEPT
         ![one] = [@ EXCEPT
                     !.people = [@ EXCEPT ![d.randThree + 1] = personTwo],
                     !.peopleMap = (@ \ {personOne.Name}) \cup {personTwo.Name}]]

\* one iteration of getNeighbour's loop on the assignment n with draws d
SwapOnce(n, d) ==
  LET one       == d.randOne + 1
      two       == (IF d.randTwo >= d.randOne THEN d.randTwo + 1
                    ELSE d.randTwo) + 1
      personOne == n[one].people[d.randThree + 1]
      personTwo == n[two].people[d.randFour + 1]
  IN  [n EXCEPT
         ![one] = [@ EXCEPT
                     !.people = [@ EXCEPT ![d.randThree + 1] = personTwo],
                     !.peopleMap = (@ \ {personOne.Name}) \cup {personTwo.Name}],
         ![two] = [@ EXCEPT
                     !.people = [@ EXCEPT ![d.randFour + 1] = personOne],
                     !.peopleMap = (@ \ {personTwo.Name}) \cup {personOne.Name}]]

RECURSIVE SwapAll(_, _)
SwapAll(n, ds) ==
  IF ds = <<>> THEN n ELSE SwapAll(SwapOnce(n, Head(ds)), Tail(ds))

\* getNeighbour(currentAssignment, swapCount) with the draws ds, one entry
\* per swap
getNeighbour(currentAssignment, ds) ==
  SwapAll(copyAssignment(currentAssignment), ds)

\* the draws of a whole getNeighbour call
NeighbourDraws(a, swapCount) == [1..swapCount -> SwapDraws(a)]

(***************************************************************************)
(* Objective functions                                                     *)
(***************************************************************************)
\* noOfPenalties of sumFunction / countFunction: the occupants with a
\* plus-one whose name is not in the table's peopleMap
noOfPenalties(assignment, po) ==
  SeqSum([t \in 1..Len(assignment) |->
    SeqSum([k \in 1..Len(assignment[t].people) |->
      LET name == assignment[t].people[k].Name
      IN  IF name \in po.keys /\ po.val[name] \notin assignment[t].peopleMap
          THEN 1 ELSE 0])])

\* a count that adds 2 for every preference found
SatisfiedPrefsDoubled(table, person) ==
  SeqSum([q \in 1..Len(person.Preferences) |->
            IF person.Preferences[q] \in table.peopleMap THEN 2 ELSE 0])

\* preferences of one person found in the map of the person's table
SatisfiedPrefs(table, person) ==
  SeqSum([q \in 1..Len(person.Preferences) |->
            IF person.Preferences[q] \in table.peopleMap THEN 1 ELSE 0])

sumFunction(assignment, po) ==
  LET cost ==
        SeqSum([t \in 1..Len(assignment) |->
          SeqSum([k \in 1..Len(assignment[t].people) |->
            SatisfiedPrefs(assignment[t], assignment[t].people[k])])])
      pen == noOfPenalties(assignment, po)
  IN  IF pen > 0 THEN -pen ELSE cost

countFunction(assignment, po) ==
  LET cost ==
        SeqSum([t \in 1..Len(assignment) |->
          SeqSum([k \in 1..Len(assignment[t].people) |->
            IF SatisfiedPrefs(assignment[t], assignment[t].people[k]) > 0
            THEN 1 ELSE 0])])
      pen == noOfPenalties(assignment, po)
  IN  IF pen > 0 THEN -pen ELSE cost

getTotalPrefs(assignment) ==
  SeqSum([t \in 1..Len(assignment) |->
    SeqSum([k \in 1..Len(assignment[t].people) |->
      Len(assignment[t].people[k].Preferences)])])

getNoOfPeople(assignment) ==
  SeqSum([t \in 1..Len(assignment) |-> Len(assignment[t].people)])

\* the weight without the number of preferences
highestPossibleCostPeopleOnly(assignment) == getNoOfPeople(assignment)

highestPossibleCost(assignment) ==
  Max(getNoOfPeople(assignment), getTotalPrefs(assignment))

\* the hybrid without the sum term
hybridFunctionCountOnly(assignment, po) ==
  countFunction(assignment, po) * highestPossibleCost(assignment)

hybridFunction(assignment, po) ==
  countFunction(assignment, po) * highestPossibleCost(assignment)
    + sumFunction(assignment, po)

\* the switch with a default that falls back on the default objective
selectedCostFunctionFallback ==
  IF costFunctionPtr \in CostFunctionNames THEN costFunctionPtr
  ELSE DefaultCostFunction

\* main's switch on *costFunctionPtr: the name of the function it assigns to
\* costFunction, or "fatal" for the default case (log.Fatal)
selectedCostFunction ==
  IF costFunctionPtr \in CostFunctionNames THEN costFunctionPtr ELSE "fatal"

\* the function the switch selected
costFunction(assignment, po) ==
  CASE selectedCostFunction = "hybrid" -> hybridFunction(assignment, po)
    [] selectedCostFunction = "sum"    -> sumFunction(assignment, po)
    [] selectedCostFunction = "count"  -> countFunction(assignment, po)

(***************************************************************************)
(* Object identity.  An assignment held in a variable refers, per table,   *)
(* to a backing array of `people` and to a map; addr records for every     *)
(* holder (initialSolution, the ladder entries, a goroutine's              *)
(* candidateSolution and updatedSolution, result) the addresses of these   *)
(* objects as a sequence of [people, map], one entry per table.  Only      *)
(* equality of addresses matters: every state names an object by the first *)
(* slot that refers to it.                                                 *)
(***************************************************************************)
\* the indices of the ladder: annealerSolutions and annealerCosts
Levels == 0..(flags.a - 1)

NoAddr == <<>>

\* the b-th block of addresses no holder uses yet, for nTables tables
FreshBlock(b, nTables) == [k \in 1..(2 * nTables) |-> -(2 * nTables * b + k)]

\* the objects of the assignment randomInitialisation returns: per table its
\* window people[start : start+capacity] of main's people array and the map
\* main made for it
initialAddrs(tables, fresh) ==
  [i \in 1..Len(tables) |-> [people |-> fresh[2 * i - 1], map |-> fresh[2 * i]]]

\* copyAssignment with the map of the source kept instead of a new one
copyAssignmentAddrsSharedMap(src, fresh) ==
  [i \in 1..Len(src) |-> [people |-> fresh[2 * i - 1], map |-> src[i].map]]

\* the objects of the assignment copyAssignment returns: a new slice
\* (make([]person, capacity)) and a new map (make(map[string]bool)) per table
copyAssignmentAddrs(src, fresh) ==
  [i \in 1..Len(src) |-> [people |-> fresh[2 * i - 1], map |-> fresh[2 * i]]]

\* the objects of an assignment
AddrsOf(a) == { a[t].people : t \in 1..Len(a) } \cup { a[t].map : t \in 1..Len(a) }

\* the holders in a fixed order
AddrHolders(ad) ==
  <<ad.initial>>
    \o [l \in 1..flags.a |-> ad.ladder[l - 1]]
    \o [l \in 1..flags.a |-> ad.candidate[l - 1]]
    \o [l \in 1..flags.a |-> ad.updated[l - 1]]
    \o <<ad.result>>

\* the object slot p refers to, the slots being numbered holder by holder,
\* table by table, the slice before the map; 0, which names no object, for
\* a holder that holds no assignment
SlotAt(hs, p) ==
  LET n == Len(problemContent.Tables)
      h == ((p - 1) \div (2 * n)) + 1
      t == (((p - 1) % (2 * n)) \div 2) + 1
  IN  IF t > Len(hs[h]) THEN 0
      ELSE IF (p - 1) % 2 = 0 THEN hs[h][t].people ELSE hs[h][t].map

\* ad with every object named by a slot that refers to it
CanonAddr(ad) ==
  LET hs == AddrHolders(ad)
      slots == 1..(Len(hs) * 2 * Len(problemContent.Tables))
      c(x) == CHOOSE p \in slots : SlotAt(hs, p) = x
      ren(a) == [t \in 1..Len(a) |-> [people |-> c(a[t].people), map |-> c(a[t].map)]]
  IN  [initial   |-> ren(ad.initial),
       ladder    |-> [l \in Levels |-> ren(ad.ladder[l])],
       candidate |-> [l \in Levels |-> ren(ad.candidate[l])],
       updated   |-> [l \in Levels |-> ren(ad.updated[l])],
       result    |-> ren(ad.result)]

\* what a holder of the objects aAddr sees in its assignment a once the
\* objects writtenAddr hold the contents of the assignment written
Store(a, aAddr, written, writtenAddr) ==
  [t \in 1..Len(a) |->
     LET ps == { u \in 1..Len(written) : writtenAddr[u].people = aAddr[t].people }
         ms == { u \in 1..Len(written) : writtenAddr[u].map = aAddr[t].map }
     IN  [a[t] EXCEPT
            !.people = IF ps = {} THEN @ ELSE written[CHOOSE u \in ps : TRUE].people,
            !.peopleMap = IF ms = {} THEN @
                          ELSE written[CHOOSE u \in ms : TRUE].peopleMap]]

(***************************************************************************)
(* The program as a state machine.  pc is main's position:                 *)
(*   "start"    flags and input parsed, anneal not yet called              *)
(*   "fatal"    log.Fatal has ended the program                            *)
(*   "loop"     at the test of `for baseTemperature > finalTemperature`    *)
(*   "spawn"    at the test of the loop that starts the goroutines         *)
(*   "recvSol"  blocked in  annealerSolutions[i] = <-annealerSolution      *)
(*   "recvCost" blocked in  annealerCosts[i] = <-annealerCost              *)
(*   "exchange" before the exchange loop                                   *)
(*   "cool"     before  baseTemperature *= coolingRate                     *)
(*   "print"    anneal has returned                                        *)
(*   "done"     printSolution has printed                                  *)
(* A goroutine is at "none" (not started), "entry" (started, nothing run), *)
(* "iter" (in the loop; blocked in `as <- updatedSolution` once i reaches  *)
(* internalIterations), "sendCost" (blocked in `ac <- updatedCost`) or     *)
(* "done" (returned; the record keeps the temperature it ran at and the    *)
(* value i had when the loop ended).                                       *)
(***************************************************************************)
NoAssignment == <<>>

NoGoroutine ==
  [pc |-> "none", candidateSolution |-> NoAssignment, temperature |-> 0,
   updatedSolution |-> NoAssignment, updatedCost |-> 0, i |-> 0]

\* the state when main has parsed the flags and the input file
InitOn(scenarios, commandLines) ==
  /\ scenario \in scenarios
  /\ flags \in commandLines
  /\ costFunctionPtr = IF flags.m = NoFlag THEN DefaultCostFunction
                                           ELSE flags.m
  /\ pc = "start"
  /\ people = Problems[scenario].People
  /\ initialSolution = NoAssignment
  /\ annealerSolutions = [l \in Levels |-> NoAssignment]
  /\ annealerCosts = [l \in Levels |-> 0]
  /\ level = 0
  /\ baseTemperature = flags.t.baseTemperature
  /\ goroutines = [l \in Levels |-> NoGoroutine]
  /\ result = NoAssignment
  /\ summary = <<>>
  /\ addr = [initial   |-> NoAddr,
             ladder    |-> [l \in Levels |-> NoAddr],
             candidate |-> [l \in Levels |-> NoAddr],
             updated   |-> [l \in Levels |-> NoAddr],
             result    |-> NoAddr]

Init == InitOn(MainScenarios, MainFlags)

\* main's switch on *costFunctionPtr has a case for the selector
costFunctionUnderstood == selectedCostFunction # "fatal"

\* default: log.Fatal("provided cost function parameter not understood")
FatalCostFunction ==
  /\ pc = "start"
  /\ ~costFunctionUnderstood
  /\ pc' = "fatal"
  /\ UNCHANGED << scenario, flags, costFunctionPtr, people, initialSolution,
                  annealerSolutions, annealerCosts, level, baseTemperature,
                  goroutines, result, summary, addr >>

\* anneal, lines 299-311: the random initial assignment and the ladder
AnnealStart ==
  /\ pc = "start"
  /\ costFunctionUnderstood
  /\ \E js \in ShuffleChoices(Len(people)) :
       LET r == randomInitialisation(people, initialTables, js)
       IN  /\ people' = r.people
           /\ initialSolution' = r.assignment
           /\ annealerSolutions' =
                [l \in Levels |-> copyAssignment(r.assignment)]
           /\ annealerCosts' =
                [l \in Levels |-> costFunction(r.assignment, plusOnes)]
  /\ LET n == Len(initialTables)
         initial == initialAddrs(initialTables, FreshBlock(0, n))
     IN  addr' = CanonAddr(
           [addr EXCEPT
              !.initial = initial,
              !.ladder = [l \in Levels |->
                            copyAssignmentAddrs(initial, FreshBlock(l + 1, n))]])
  /\ pc' = "loop"
  /\ UNCHANGED << scenario, flags, costFunctionPtr, level, baseTemperature,
                  goroutines, result, summary >>

\* for baseTemperature > finalTemperature
CoolingLoopCond == baseTemperature > flags.t.endTemperature

\* the loop test succeeds: `i := 0` of the loop that starts the goroutines
RoundStart ==
  /\ pc = "loop"
  /\ CoolingLoopCond
  /\ pc' = "spawn"
  /\ level' = 0
  /\ UNCHANGED << scenario, flags, costFunctionPtr, people, initialSolution,
                  annealerSolutions, annealerCosts, baseTemperature,
                  goroutines, result, summary, addr >>

\* the loop test fails: return annealerSolutions[0]
Return ==
  /\ pc = "loop"
  /\ ~CoolingLoopCond
  /\ result' = annealerSolutions[0]
  /\ addr' = CanonAddr([addr EXCEPT !.result = addr.ladder[0]])
  /\ pc' = "print"
  /\ UNCHANGED << scenario, flags, costFunctionPtr, people, initialSolution,
                  annealerSolutions, annealerCosts, level, baseTemperature,
                  goroutines, summary >>

\* the test with the last level left out
SpawnLoopCondShort(i) == i < flags.a - 1

\* i < concurrentAnnealerCount, the test of the loop of line 316
SpawnLoopCond(i) == i < flags.a

\* main receiving the score before the assignment
FirstReceiveCost == "recvCost"

\* the receive main blocks in after the go statement:
\* annealerSolutions[i] = <-annealerSolution
FirstReceive == "recvSol"

\* go annealerInternalIterator(annealerSolutions[i], ...): the arguments are
\* evaluated here; main goes on to the receive
Spawn ==
  /\ pc = "spawn"
  /\ SpawnLoopCond(level)
  /\ goroutines' =
       [goroutines EXCEPT ![level] =
          [pc |-> "entry", candidateSolution |-> annealerSolutions[level],
           temperature |-> baseTemperature * (2 ^ level),
           updatedSolution |-> NoAssignment, updatedCost |-> 0, i |-> 0]]
  /\ addr' = CanonAddr([addr EXCEPT !.candidate[level] = addr.ladder[level]])
  /\ pc' = FirstReceive
  /\ UNCHANGED << scenario, flags, costFunctionPtr, people, initialSolution,
                  annealerSolutions, annealerCosts, level, baseTemperature,
                  result, summary >>

\* the loop of line 316 ends: main goes on to the exchange loop
SpawnLoopExit ==
  /\ pc = "spawn"
  /\ ~SpawnLoopCond(level)
  /\ pc' = "exchange"
  /\ UNCHANGED << scenario, flags, costFunctionPtr, people, initialSolution,
                  annealerSolutions, annealerCosts, level, baseTemperature,
                  goroutines, result, summary, addr >>

\* annealerInternalIterator, lines 342-343
IteratorEntry(g) ==
  /\ goroutines[g].pc = "entry"
  /\ LET updated == copyAssignment(goroutines[g].candidateSolution)
     IN  goroutines' =
           [goroutines EXCEPT ![g] =
              [@ EXCEPT !.pc = "iter",
                        !.candidateSolution = NoAssignment,
                        !.updatedSolution = updated,
                        !.updatedCost = costFunction(updated, plusOnes),
                        !.i = 0]]
  /\ addr' = CanonAddr(
       [addr EXCEPT
          !.candidate[g] = NoAddr,
          !.updated[g] = copyAssignmentAddrs(
                           addr.candidate[g],
                           FreshBlock(0, Len(addr.candidate[g])))])
  /\ UNCHANGED << scenario, flags, costFunctionPtr, pc, people, initialSolution,
                  annealerSolutions, annealerCosts, level, baseTemperature,
                  result, summary >>

\* a comparison that can reject a neighbour of equal score
MetropolisOutcomesAnyDraw(oldCost, newCost) == {TRUE, FALSE}

\* whether `ap > rand.Float64()` can come out true / false for the scores
\* given, at a positive temperature: ap = exp((new - old) / temperature) is 1
\* when the scores are equal and below 1 when the new one is lower, and the
\* draw is in [0, 1).  At a temperature of a few units of 2^-1074 the
\* quotient of a lower score is -Inf and ap is 0.
MetropolisOutcomes(oldCost, newCost) ==
  IF newCost = oldCost THEN {TRUE}
  ELSE IF flags.t.unit = "denormal" THEN {FALSE}
  ELSE {TRUE, FALSE}

\* the (assignment, score) pair one iteration of the loop of line 345 leaves
\* in updatedSolution / updatedCost
IterationResult(updatedSolution, updatedCost, newCandidateSolution, accept) ==
  LET newCandidateCost == costFunction(newCandidateSolution, plusOnes)
  IN  IF newCandidateCost > updatedCost
      THEN [solution |-> newCandidateSolution, cost |-> newCandidateCost]
      ELSE IF accept
           THEN [solution |-> newCandidateSolution, cost |-> newCandidateCost]
           ELSE [solution |-> updatedSolution, cost |-> updatedCost]

\* one iteration of the loop of annealerInternalIterator, lines 345-363.
\* getNeighbour writes into the objects of its copy; whoever else refers to
\* one of them sees the write.
IteratorStep(g) ==
  /\ goroutines[g].pc = "iter"
  /\ goroutines[g].i < InternalIterations
  /\ \E ds \in NeighbourDraws(goroutines[g].updatedSolution, SwapCount) :
     \E new \in { getNeighbour(goroutines[g].updatedSolution, ds) } :
     \E accept \in MetropolisOutcomes(goroutines[g].updatedCost,
                                      costFunction(new, plusOnes)) :
       LET cur     == goroutines[g]
           newAddr == copyAssignmentAddrs(
                        addr.updated[g],
                        FreshBlock(0, Len(addr.updated[g])))
           seen(a, aAddr) == Store(a, aAddr, new, newAddr)
       IN  \E r \in { IterationResult(
                        seen(cur.updatedSolution, addr.updated[g]),
                        cur.updatedCost, new, accept) } :
             /\ goroutines' =
                  [h \in Levels |->
                     IF h = g
                     THEN [cur EXCEPT !.updatedSolution = r.solution,
                                      !.updatedCost = r.cost,
                                      !.i = @ + 1]
                     ELSE [goroutines[h] EXCEPT
                             !.candidateSolution = seen(@, addr.candidate[h]),
                             !.updatedSolution = seen(@, addr.updated[h])]]
             /\ \E taken \in { r.solution = new } :
                  addr' = CanonAddr(
                    [addr EXCEPT !.updated[g] = IF taken THEN newAddr ELSE @])
             /\ initialSolution' = seen(initialSolution, addr.initial)
             /\ annealerSolutions' =
                  [l \in Levels |-> seen(annealerSolutions[l], addr.ladder[l])]
             /\ result' = seen(result, addr.result)
  /\ UNCHANGED << scenario, flags, costFunctionPtr, pc, people,
                  annealerCosts, level, baseTemperature, summary >>

\* as <- updatedSolution meets annealerSolutions[i] = <-annealerSolution
\* (the channel is unbuffered: sender and receiver move together)
SendSolution(g) ==
  /\ goroutines[g].pc = "iter"
  /\ ~(goroutines[g].i < InternalIterations)
  /\ pc = "recvSol"
  /\ annealerSolutions' =
       [annealerSolutions EXCEPT ![level] = goroutines[g].updatedSolution]
  /\ goroutines' = [goroutines EXCEPT ![g] = [@ EXCEPT !.pc = "sendCost"]]
  /\ addr' = CanonAddr([addr EXCEPT !.ladder[level] = addr.updated[g]])
  /\ pc' = "recvCost"
  /\ UNCHANGED << scenario, flags, costFunctionPtr, people, initialSolution,
                  annealerCosts, level, baseTemperature, result, summary >>

\* ac <- updatedCost meets annealerCosts[i] = <-annealerCost; the goroutine
\* returns and main's loop does i++
SendCost(g) ==
  /\ goroutines[g].pc = "sendCost"
  /\ pc = "recvCost"
  /\ annealerCosts' =
       [annealerCosts EXCEPT ![level] = goroutines[g].updatedCost]
  /\ goroutines' =
       [goroutines EXCEPT ![g] =
          [NoGoroutine EXCEPT !.pc = "done",
                              !.temperature = goroutines[g].temperature,
                              !.i = goroutines[g].i]]
  /\ addr' = CanonAddr([addr EXCEPT !.updated[g] = NoAddr])
  /\ level' = level + 1
  /\ pc' = "spawn"
  /\ UNCHANGED << scenario, flags, costFunctionPtr, people, initialSolution,
                  annealerSolutions, baseTemperature, result, summary >>

\* the comparison the other way round
ExchangeCondReversed(hotter, colder) == hotter < colder

\* if annealerCosts[i] > annealerCosts[i-1]
ExchangeCond(hotter, colder) == hotter > colder

\* a loop that leaves level 0 out of the comparisons
ExchangeLoopCondAboveOne(i) == i > 1

\* for i := concurrentAnnealerCount - 1; i > 0; i--
ExchangeLoopCond(i) == i > 0

\* a swap of the assignments that leaves the scores where they are
SwapLevelsSolutionsOnly(ladder, i) ==
  [ladder EXCEPT !.solutions = [@ EXCEPT ![i] = ladder.solutions[i - 1],
                                         ![i - 1] = ladder.solutions[i]]]

\* the two swaps of lines 325-326 on the ladder [solutions, costs]
SwapLevels(ladder, i) ==
  [solutions |-> [ladder.solutions EXCEPT ![i] = ladder.solutions[i - 1],
                                          ![i - 1] = ladder.solutions[i]],
   costs     |-> [ladder.costs EXCEPT ![i] = ladder.costs[i - 1],
                                      ![i - 1] = ladder.costs[i]]]

\* the exchange loop of lines 323-328 from index i down to 1, on the ladder
\* [solutions, costs]
RECURSIVE ExchangeFrom(_, _)
ExchangeFrom(ladder, i) ==
  IF ~ExchangeLoopCond(i) THEN ladder
  ELSE IF ExchangeCond(ladder.costs[i], ladder.costs[i - 1])
       THEN ExchangeFrom(SwapLevels(ladder, i), i - 1)
       ELSE ExchangeFrom(ladder, i - 1)

\* the whole exchange pass
ExchangePass ==
  /\ pc = "exchange"
  /\ LET after == ExchangeFrom([solutions |-> annealerSolutions,
                                costs |-> annealerCosts], flags.a - 1)
         moved == ExchangeFrom([solutions |-> addr.ladder,
                                costs |-> annealerCosts], flags.a - 1)
     IN  /\ annealerSolutions' = after.solutions
         /\ annealerCosts' = after.costs
         /\ addr' = CanonAddr([addr EXCEPT !.ladder = moved.solutions])
  /\ pc' = "cool"
  /\ UNCHANGED << scenario, flags, costFunctionPtr, people, initialSolution, level,
                  baseTemperature, goroutines, result, summary >>

\* the float64 product x * rate for x a whole number of units and a rate
\* num / den that is exact in binary: the quotient rounded to the nearest
\* whole number of units, a tie to the even one (exact when the unit is 1.0
\* and the quotient is whole; the rounding of IEEE 754 when the unit is
\* 2^-1074, where the float64 are the whole multiples of the unit)
MulFloat(x, rate) ==
  LET q == (x * rate.num) \div rate.den
      r == (x * rate.num) % rate.den
  IN  IF 2 * r < rate.den THEN q
      ELSE IF 2 * r > rate.den THEN q + 1
      ELSE IF q % 2 = 0 THEN q ELSE q + 1

\* baseTemperature *= coolingRate
Cool ==
  /\ pc = "cool"
  /\ baseTemperature' = MulFloat(baseTemperature, flags.t.coolingRate)
  /\ pc' = "loop"
  /\ UNCHANGED << scenario, flags, costFunctionPtr, people, initialSolution,
                  annealerSolutions, annealerCosts, level, goroutines,
                  result, summary, addr >>

\* the three numbers of printSolution's first line
printSolution(solution, po) ==
  << countFunction(solution, po),
     getNoOfPeople(solution) - countFunction(solution, po),
     sumFunction(solution, po) >>

PrintSolution ==
  /\ pc = "print"
  /\ summary' = printSolution(result, plusOnes)
  /\ pc' = "done"
  /\ UNCHANGED << scenario, flags, costFunctionPtr, people, initialSolution,
                  annealerSolutions, annealerCosts, level, baseTemperature,
                  goroutines, result, addr >>

Next ==
  \/ FatalCostFunction
  \/ AnnealStart
  \/ RoundStart
  \/ Return
  \/ Spawn
  \/ SpawnLoopExit
  \/ \E g \in Levels : IteratorEntry(g)
  \/ \E g \in Levels : IteratorStep(g)
  \/ \E g \in Levels : SendSolution(g)
  \/ \E g \in Levels : SendCost(g)
  \/ ExchangePass
  \/ Cool
  \/ PrintSolution

Spec == Init /\ [][Next]_vars

InitInputs == InitOn(InputScenarios, InputFlags)

SpecInputs == InitInputs /\ [][Next]_vars

\* one round, -b 2 -e 1 -c 0.5
oneRoundFlags ==
  [baseTemperature |-> 2, endTemperature |-> 1,
   coolingRate |-> [num |-> 1, den |-> 2], unit |-> "one"]

\* the runs of a ladder with one level more: one input file, the sum
\* objective and an unknown selector, one round
LadderFlags ==
  { CommandLine(m, LadderSize + 1, oneRoundFlags) : m \in {"sum", "bogus"} }

InitLadder == InitOn({3}, LadderFlags)

SpecLadder == InitLadder /\ [][Next]_vars

\* the runs on the four-person input file: the sum objective and an unknown
\* selector, one round
FourFlags ==
  { CommandLine(m, LadderSize, oneRoundFlags) : m \in {"sum", "bogus"} }

InitFour == InitOn({1}, FourFlags)

SpecFour == InitFour /\ [][Next]_vars

\* the runs the termination of anneal is checked on: one input file, the
\* sum objective and an unknown selector, temperatures that need no round and
\* subnormal ones
CoolingFlags ==
  { CommandLine(m, LadderSize, t) :
      m \in {"sum", "bogus"}, t \in {zeroRoundFlags, denormalFlags} }

InitCooling == InitOn({2}, CoolingFlags)

\* main and the goroutine it waits for are never both runnable: whichever
\* can take a step is scheduled
FairSpecCooling == InitCooling /\ [][Next]_vars /\ WF_vars(Next)

(***************************************************************************)
(* Vocabulary of the properties                                            *)
(***************************************************************************)
\* every assignment the state holds: the initial one, the ladder, the
\* argument and the current state of every goroutine, the returned one
Produced ==
  ({initialSolution, result}
     \cup { annealerSolutions[l] : l \in Levels }
     \cup { goroutines[g].candidateSolution : g \in Levels }
     \cup { goroutines[g].updatedSolution : g \in Levels })
  \ {NoAssignment}

\* every neighbour a goroutine in its loop can generate next
NextNeighbours ==
  UNION { { getNeighbour(goroutines[g].updatedSolution, ds) :
              ds \in NeighbourDraws(goroutines[g].updatedSolution, SwapCount) } :
          g \in { h \in Levels : /\ goroutines[h].pc = "iter"
                                 /\ goroutines[h].i < InternalIterations } }

\* the persons of the input file
InputPersons == { problemContent.People[k] : k \in 1..Len(problemContent.People) }

\* the seats (table, slot) of assignment a that person p occupies
SeatsOf(a, p) ==
  { s \in UNION { { <<t, k>> : k \in 1..Len(a[t].people) } : t \in 1..Len(a) } :
      a[s[1]].people[s[2]] = p }

\* the names of the occupants of a table
OccupantNames(table) == { table.people[k].Name : k \in 1..Len(table.people) }

\* a is a partition of the input's people into full tables
IsPartition(a) ==
  /\ Len(a) = Len(problemContent.Tables)
  /\ \A t \in 1..Len(a) :
       /\ a[t].capacity = problemContent.Tables[t]
       /\ Len(a[t].people) = a[t].capacity
  /\ \A p \in InputPersons : Cardinality(SeatsOf(a, p)) = 1

\* the seating of an assignment, without the membership sets
Seating(a) == [t \in 1..Len(a) |-> a[t].people]

\* C1: every assignment the program produces (the random initial one, every
\* copy, every neighbour, every ladder entry before and after an exchange
\* pass, the one returned) seats each person of the input at exactly one
\* table and fills each table with exactly `capacity` occupants.
C1_Partition ==
  /\ \A a \in Produced : IsPartition(a) /\ IsPartition(copyAssignment(a))
  /\ \A a \in NextNeighbours : IsPartition(a)

\* C1 witness: anneal has returned an assignment that swaps have changed
C1_Witness ==
  /\ pc = "done"
  /\ IsPartition(result)
  /\ Seating(result) # Seating(initialSolution)

\* C2: in every assignment the program produces each table's membership set
\* holds exactly the names of the table's occupants.
C2_PeopleMapAgrees ==
  \A a \in Produced :
    \A t \in 1..Len(a) : a[t].peopleMap = OccupantNames(a[t])

\* the score of the random initial assignment, as anneal computes it
InitialScore == costFunction(initialSolution, plusOnes)

\* C3 as stated: after every exchange pass the score of level 0, and the
\* score of the assignment returned, is at least the score of the initial
\* assignment.
C3_NeverBelowInitial ==
  /\ pc = "cool" => annealerCosts[0] >= InitialScore
  /\ pc \in {"print", "done"} => costFunction(result, plusOnes) >= InitialScore

\* C3 as amended: an exchange pass never lowers the score held at level 0
\* and leaves there a score that is at least the one every level held
\* before the pass, and anneal returns the assignment of level 0.
C3_ExchangeKeepsBest ==
  [][ /\ ExchangePass =>
           \A l \in Levels : annealerCosts'[0] >= annealerCosts[l]
      /\ Return => result' = annealerSolutions[0] ]_vars

\* C3 witness: an exchange pass has run on a ladder with different scores
\* and anneal has since returned the assignment of level 0
C3_Witness ==
  /\ pc = "print"
  /\ annealerCosts[0] > annealerCosts[flags.a - 1]
  /\ result = annealerSolutions[0]

\* a chain iterator that has been started and has not yet returned
InProgress(g) == goroutines[g].pc \in {"entry", "iter", "sendCost"}

\* C4: within a round the task of level i+1 can be started while the task
\* of level i has not yet finished: whenever level i's iterator is in
\* progress and level i+1's has not been started in this round, main is able
\* to start it.
C4_NextTaskCanStart ==
  \A l \in Levels :
    ( /\ l + 1 \in Levels
      /\ InProgress(l)
      /\ goroutines[l + 1].pc \in {"none", "done"} )
    => ENABLED (Spawn /\ level = l + 1)

\* C5: the exchange pass starts only after the chain iterator of every level
\* has, in this round, run all its internalIterations steps and delivered
\* its assignment and its score; no iterator is running during the pass.
C5_Barrier ==
  pc \in {"exchange", "cool"} =>
    \A l \in Levels :
      /\ goroutines[l].pc = "done"
      /\ goroutines[l].i = InternalIterations
      /\ goroutines[l].temperature = baseTemperature * (2 ^ l)

\* C5 witness: main stands before the exchange pass of a round after the
\* first, every iterator of this round having returned
C5_Witness ==
  /\ pc = "exchange"
  /\ baseTemperature < flags.t.baseTemperature
  /\ \A l \in Levels : goroutines[l].pc = "done"

\* the occupants with a declared companion who is not an occupant of their
\* table
Violations(a, po) ==
  SeqSum([t \in 1..Len(a) |->
    SeqSum([k \in 1..Len(a[t].people) |->
      LET name == a[t].people[k].Name
      IN  IF name \in po.keys /\ po.val[name] \notin OccupantNames(a[t])
          THEN 1 ELSE 0])])

\* C6: for an assignment with at least one companion violation sumFunction
\* and countFunction both return the negative of the number of violations.
C6_PenaltyIsViolationCount ==
  \A a \in Produced :
    Violations(a, plusOnes) > 0 =>
      /\ sumFunction(a, plusOnes) = -Violations(a, plusOnes)
      /\ countFunction(a, plusOnes) = -Violations(a, plusOnes)

\* C7: with one companion pair (X, Y) declared, sumFunction and countFunction
\* are negative exactly when X and Y are occupants of different tables.
C7_NegativeIffApart ==
  Len(problemContent.PlusOnes) = 1 =>
    \A a \in Produced :
      /\ sumFunction(a, plusOnes) < 0 <=> Violations(a, plusOnes) > 0
      /\ countFunction(a, plusOnes) < 0 <=> Violations(a, plusOnes) > 0

\* C8 as stated: with at least one companion violation hybridFunction
\* returns the negative of the violation count.
C8_HybridIsMinusViolations ==
  \A a \in Produced :
    Violations(a, plusOnes) > 0 =>
      hybridFunction(a, plusOnes) = -Violations(a, plusOnes)

\* C8 as amended: when sumFunction and countFunction report p > 0 penalties
\* (occupants whose declared companion is not in their table's membership
\* set), hybridFunction returns -p * (M + 1), M being the larger of the
\* number of people and the number of preferences.
C8_HybridPenalty ==
  \A a \in Produced :
    noOfPenalties(a, plusOnes) > 0 =>
      hybridFunction(a, plusOnes) =
        -noOfPenalties(a, plusOnes) * (highestPossibleCost(a) + 1)

\* C8 witness: the hybrid objective is selected and level 0 holds, after an
\* exchange pass, an assignment with a penalty, scored below the penalty
\* count
C8_Witness ==
  /\ costFunctionPtr = "hybrid"
  /\ pc = "cool"
  /\ noOfPenalties(annealerSolutions[0], plusOnes) > 0
  /\ annealerCosts[0] < -noOfPenalties(annealerSolutions[0], plusOnes)

\* C9: hybridFunction orders assignments without companion violations by
\* count first and sum second.
C9_Lexicographic ==
  \A a, b \in Produced :
    (Violations(a, plusOnes) = 0 /\ Violations(b, plusOnes) = 0) =>
      /\ countFunction(a, plusOnes) > countFunction(b, plusOnes)
           => hybridFunction(a, plusOnes) > hybridFunction(b, plusOnes)
      /\ ( /\ countFunction(a, plusOnes) = countFunction(b, plusOnes)
           /\ sumFunction(a, plusOnes) > sumFunction(b, plusOnes) )
           => hybridFunction(a, plusOnes) > hybridFunction(b, plusOnes)

\* C9 witness: two assignments of the ladder, the one with the higher count
\* having the lower sum by at least the number of people
C9_Witness ==
  \E a, b \in { annealerSolutions[l] : l \in Levels } \ {NoAssignment} :
    /\ Violations(a, plusOnes) = 0 /\ Violations(b, plusOnes) = 0
    /\ countFunction(a, plusOnes) > countFunction(b, plusOnes)
    /\ sumFunction(b, plusOnes) >= sumFunction(a, plusOnes) + getNoOfPeople(a)
    /\ hybridFunction(a, plusOnes) > hybridFunction(b, plusOnes)

\* the preferences of a person that name an occupant of the table
PrefsSeated(table, person) ==
  SeqSum([q \in 1..Len(person.Preferences) |->
            IF person.Preferences[q] \in OccupantNames(table) THEN 1 ELSE 0])

\* the people with at least one preferred person at their table
SatisfiedPeople(a) ==
  SeqSum([t \in 1..Len(a) |->
    SeqSum([k \in 1..Len(a[t].people) |->
      IF PrefsSeated(a[t], a[t].people[k]) > 0 THEN 1 ELSE 0])])

\* the (person, preference) pairs whose preferred person is at the table
SatisfiedPairs(a) ==
  SeqSum([t \in 1..Len(a) |->
    SeqSum([k \in 1..Len(a[t].people) |-> PrefsSeated(a[t], a[t].people[k])])])

\* C10: the numbers printed for the returned assignment are the number of
\* people with a preferred person at their table, the number of people with
\* none (both between 0 and the head count) and the number of satisfied
\* (person, preference) pairs.
C10_Summary ==
  pc = "done" =>
    /\ summary = << SatisfiedPeople(result),
                    Len(problemContent.People) - SatisfiedPeople(result),
                    SatisfiedPairs(result) >>
    /\ summary[1] \in 0..Len(problemContent.People)
    /\ summary[2] \in 0..Len(problemContent.People)

(***************************************************************************)
(* Neighbour generation and object identity.                               *)
(***************************************************************************)

\* the occupant slots in which assignments a and b of the same shape differ
DiffSlots(a, b) ==
  UNION { { <<t, k>> : k \in { j \in 1..Len(a[t].people) :
                                 a[t].people[j] # b[t].people[j] } } :
          t \in 1..Len(a) }

\* a and b have the same tables with the same capacities
SameShape(a, b) ==
  /\ Len(a) = Len(b)
  /\ \A t \in 1..Len(a) : /\ a[t].capacity = b[t].capacity
                          /\ Len(a[t].people) = Len(b[t].people)

\* goroutine g takes one step of its loop in this transition
Stepped(g) ==
  /\ goroutines[g].pc = "iter"
  /\ goroutines'[g].i = goroutines[g].i + 1

\* C11: getNeighbour(A, k) returns an assignment that differs from A in at
\* most 2k occupant slots and leaves A unchanged: in every step of an
\* iterator each neighbour it can generate has A's shape and differs from A
\* in at most 2 * SwapCount slots, every assignment held elsewhere (the
\* initial one, the ladder, the result) keeps its occupants and its
\* membership sets, and the iterator continues with A as it was or with a
\* neighbour.
C11_NeighbourFrame ==
  [][ \A g \in Levels :
        Stepped(g) =>
          LET A == goroutines[g].updatedSolution
              neighbours == { getNeighbour(A, ds) : ds \in NeighbourDraws(A, SwapCount) }
          IN  /\ \A n \in neighbours :
                   /\ SameShape(A, n)
                   /\ Cardinality(DiffSlots(A, n)) <= 2 * SwapCount
              /\ initialSolution' = initialSolution
              /\ annealerSolutions' = annealerSolutions
              /\ result' = result
              /\ \A h \in Levels \ {g} : goroutines'[h] = goroutines[h]
              /\ goroutines'[g].updatedSolution \in {A} \cup neighbours ]_vars

\* C11 witness: an iterator has accepted a neighbour that differs in
\* 2 * SwapCount slots from the ladder assignment it was copied from
C11_Witness ==
  \E g \in Levels :
    /\ goroutines[g].pc = "iter"
    /\ goroutines[g].i > 0
    /\ SameShape(goroutines[g].updatedSolution, annealerSolutions[g])
    /\ Cardinality(DiffSlots(goroutines[g].updatedSolution,
                             annealerSolutions[g])) = 2 * SwapCount

(***************************************************************************)
(* The cooling loop and the parameters of the run.                         *)
(***************************************************************************)

\* 0 < coolingRate < 1, finalTemperature > 0 and ladderSize >= 1
ValidParameters ==
  /\ 0 < flags.t.coolingRate.num
  /\ flags.t.coolingRate.num < flags.t.coolingRate.den
  /\ flags.t.endTemperature > 0
  /\ flags.a >= 1

\* anneal has returned
Returned == pc \in {"print", "done"}

\* C12: with 0 < coolingRate < 1, finalTemperature > 0 and ladderSize >= 1
\* anneal terminates; a round starts only while baseTemperature >
\* finalTemperature, baseTemperature changes only at the end of a round, to
\* baseTemperature * coolingRate, and anneal returns at the first round
\* boundary with baseTemperature <= finalTemperature, with the assignment
\* level 0 holds at that moment.
C12_Terminates ==
  /\ (ValidParameters /\ costFunctionUnderstood) => <>Returned
  /\ [][ /\ (pc = "loop" /\ pc' = "spawn")
              => baseTemperature > flags.t.endTemperature
         /\ (pc = "loop" /\ pc' = "print")
              => /\ baseTemperature <= flags.t.endTemperature
                 /\ result' = annealerSolutions[0]
         /\ baseTemperature' # baseTemperature
              => /\ pc = "cool"
                 /\ baseTemperature' =
                      MulFloat(baseTemperature, flags.t.coolingRate) ]_vars

\* the cooling rate is outside (0, 1), the final temperature is not
\* positive, or the ladder has no level
DegenerateParameters == ~ValidParameters

\* no round has started and none will: main is before the call of anneal or
\* has ended with an error
NoAnnealingWork == pc \in {"start", "fatal"}

\* C13: with degenerate parameters (here: a cooling rate of 1) the program
\* reaches an error outcome without running any round.
C13_DegenerateRejected == DegenerateParameters => NoAnnealingWork

\* the capacities of the tables do not add up to the number of people
CapacityMismatch ==
  SeqSum(problemContent.Tables) # Len(problemContent.People)

\* C14: when the sum of the table capacities differs from the number of
\* people the program ends in an error outcome before any annealing work
\* begins; the cooling loop never starts with an assignment that omits a
\* person.
C14_MismatchRejected == CapacityMismatch => NoAnnealingWork

(***************************************************************************)
(* The objective-function selector.                                        *)
(***************************************************************************)

\* C15: a selector other than "hybrid", "sum" or "count" makes the program
\* fail before anneal is called: main stays before the call or ends in
\* log.Fatal, and no random initialisation, no cooling round and no output
\* happens.
C15_UnknownSelectorFails ==
  costFunctionPtr \notin {"hybrid", "sum", "count"} =>
    /\ NoAnnealingWork
    /\ initialSolution = NoAssignment
    /\ \A l \in Levels : annealerSolutions[l] = NoAssignment
    /\ \A l \in Levels : goroutines[l].pc = "none"
    /\ baseTemperature = flags.t.baseTemperature
    /\ result = NoAssignment
    /\ summary = <<>>

\* C15 witness: the run with an unknown selector has ended in log.Fatal
C15_Witness ==
  /\ costFunctionPtr \notin {"hybrid", "sum", "count"}
  /\ pc = "fatal"

\* the ladder is scored with objective f
ScoredWith(f(_, _)) ==
  \A l \in Levels :
    annealerSolutions[l] # NoAssignment =>
      annealerCosts[l] = f(annealerSolutions[l], plusOnes)

\* C16 as stated: without -m the objective of the run is the sum objective,
\* and the selectable objectives are exactly sum and count: every other
\* selector ends the run in log.Fatal before any annealing work and these
\* two never do.
C16_DefaultIsSum ==
  /\ flags.m = NoFlag =>
       /\ costFunctionPtr = "sum"
       /\ pc \in {"loop", "cool", "print", "done"} => ScoredWith(sumFunction)
  /\ costFunctionPtr \in {"sum", "count"} => pc # "fatal"
  /\ costFunctionPtr \notin {"sum", "count"} => NoAnnealingWork

\* C16 amended: without -m the objective held for the whole run is the
\* hybrid objective, and the selectable objectives are exactly hybrid, sum
\* and count: every other selector ends the run in log.Fatal and these
\* three never do.
C16_DefaultIsHybrid ==
  /\ flags.m = NoFlag =>
       /\ costFunctionPtr = "hybrid"
       /\ pc \in {"loop", "cool", "print", "done"} => ScoredWith(hybridFunction)
  /\ costFunctionPtr \in {"hybrid", "sum", "count"} => pc # "fatal"
  /\ costFunctionPtr \notin {"hybrid", "sum", "count"} => NoAnnealingWork

\* C16 witness: a run without -m has finished with a ladder whose level-0
\* score is the hybrid score and differs from the sum score
C16_Witness ==
  /\ flags.m = NoFlag
  /\ pc = "done"
  /\ annealerCosts[0] = hybridFunction(annealerSolutions[0], plusOnes)
  /\ annealerCosts[0] # sumFunction(annealerSolutions[0], plusOnes)

(***************************************************************************)
(* The acceptance rule.                                                    *)
(***************************************************************************)

\* C17: in each step of annealerInternalIterator the new current state is
\* the generated neighbour with the neighbour's score or the unchanged
\* previous (assignment, score) pair; a neighbour whose score is greater
\* than or equal to the current score is accepted whatever the draw, so only
\* a strictly worse neighbour can be rejected.
C17_Acceptance ==
  [][ \A g \in Levels :
        Stepped(g) =>
          LET A  == goroutines[g].updatedSolution
              cA == goroutines[g].updatedCost
              kept == [solution |-> A, cost |-> cA]
              pairOf(n) == [solution |-> n, cost |-> costFunction(n, plusOnes)]
              neighbours == { getNeighbour(A, ds) : ds \in NeighbourDraws(A, SwapCount) }
          IN  /\ [solution |-> goroutines'[g].updatedSolution,
                  cost     |-> goroutines'[g].updatedCost]
                   \in {kept} \cup { pairOf(n) : n \in neighbours }
              /\ \A n \in neighbours :
                   \A accept \in MetropolisOutcomes(cA, pairOf(n).cost) :
                     LET r == IterationResult(A, cA, n, accept)
                     IN  /\ r \in {kept, pairOf(n)}
                         /\ pairOf(n).cost >= cA => r = pairOf(n)
                         /\ r # pairOf(n) => pairOf(n).cost < cA ]_vars

\* C17 witness: in its first step an iterator has accepted a neighbour whose
\* score equals the score it started from
C17_Witness ==
  \E g \in Levels :
    /\ goroutines[g].pc = "iter"
    /\ goroutines[g].i = 1
    /\ goroutines[g].updatedSolution # annealerSolutions[g]
    /\ goroutines[g].updatedCost = annealerCosts[g]

(***************************************************************************)
(* Ownership of the ladder's assignments.                                  *)
(***************************************************************************)

\* the assignments with objects a and b share no slice and no map
Disjoint(a, b) == AddrsOf(a) \cap AddrsOf(b) = {}

\* C18 as stated: for levels i # j the occupant lists and membership sets of
\* annealerSolutions[i] and annealerSolutions[j] are distinct objects, and
\* also distinct from those of the initial assignment and from those of the
\* input handed to a running chain iterator.
C18_DistinctFromIteratorInput ==
  \A i \in Levels :
    /\ Disjoint(addr.ladder[i], addr.initial)
    /\ \A j \in Levels \ {i} : Disjoint(addr.ladder[i], addr.ladder[j])
    /\ \A j \in Levels : Disjoint(addr.ladder[i], addr.candidate[j])

\* C18 amended: for levels i # j the occupant lists and membership sets of
\* annealerSolutions[i] and annealerSolutions[j] are distinct objects, and
\* distinct from those of the initial assignment and of the copy any
\* iterator works on.  The input handed to the iterator of level i is
\* annealerSolutions[i] itself and shares nothing with another level; the
\* copy the iterator swaps in shares nothing with its input, nor with its
\* own level until it is handed over.  The ladder changes only when main
\* receives an assignment or exchanges two levels, never by a swap of a
\* chain.
C18_NoSharing ==
  /\ [](\A i \in Levels :
          /\ Disjoint(addr.ladder[i], addr.initial)
          /\ Disjoint(addr.updated[i], addr.initial)
          /\ goroutines[i].pc = "iter" =>
               Disjoint(addr.updated[i], addr.ladder[i])
          /\ \A j \in Levels : Disjoint(addr.updated[i], addr.candidate[j])
          /\ \A j \in Levels \ {i} :
               /\ Disjoint(addr.updated[i], addr.ladder[j])
               /\ Disjoint(addr.ladder[i], addr.ladder[j])
               /\ Disjoint(addr.ladder[i], addr.candidate[j])
               /\ Disjoint(addr.updated[i], addr.updated[j])
          /\ addr.candidate[i] # NoAddr => addr.candidate[i] = addr.ladder[i]
          /\ \A t \in 1..Len(addr.ladder[i]) :
               addr.ladder[i][t].people # addr.ladder[i][t].map)
  /\ [][ annealerSolutions' # annealerSolutions =>
           \/ pc = "start"
           \/ pc = "recvSol" /\ pc' = "recvCost"
           \/ pc = "exchange" /\ pc' = "cool" ]_vars

\* C18 witness: level 0 holds the assignment a chain returned, and the
\* iterator of level 1 has been handed annealerSolutions[1] itself, the
\* objects of which are shared with no other level and not with the
\* initial assignment
C18_Witness ==
  /\ flags.a > 1
  /\ pc = "recvSol"
  /\ goroutines[1].pc = "entry"
  /\ addr.candidate[1] # NoAddr
  /\ addr.candidate[1] = addr.ladder[1]
  /\ Disjoint(addr.candidate[1], addr.ladder[0])
  /\ Disjoint(addr.candidate[1], addr.initial)
  /\ annealerSolutions[0] # initialSolution

(***************************************************************************)
(* The exchange pass.                                                      *)
(***************************************************************************)

\* C19: after every exchange pass ladder level 0 holds a score greater than
\* or equal to the score of every other ladder level (the ladder as a whole
\* need not be sorted).
C19_LevelZeroIsBest ==
  pc = "cool" => \A l \in Levels : annealerCosts[0] >= annealerCosts[l]

\* C19 witness: after an exchange pass level 0 holds the highest score and
\* the levels above it are not in descending order
C19_Witness ==
  /\ pc = "cool"
  /\ flags.a > 2
  /\ \A l \in Levels : annealerCosts[0] >= annealerCosts[l]
  /\ annealerCosts[1] < annealerCosts[2]

\* the (assignment, score) pair of ladder level l
PairAt(solutions, costs, l) == [solution |-> solutions[l], cost |-> costs[l]]

\* the ladder holds, level by level, the selected objective of its assignment
LadderScored ==
  \A l \in Levels :
    annealerCosts[l] = costFunction(annealerSolutions[l], plusOnes)

\* the one-to-one maps from the levels onto the levels
LevelPermutations ==
  { f \in [Levels -> Levels] : \A i, j \in Levels : f[i] = f[j] => i = j }

\* C20: at every round boundary and after every exchange pass annealerCosts[i]
\* is the selected objective function applied to annealerSolutions[i], for
\* every level i; and an exchange pass only permutes the (assignment, score)
\* pairs of the ladder.
C20_PairsStayPaired ==
  /\ [](pc \in {"loop", "exchange", "cool", "print"} => LadderScored)
  /\ [][ (pc = "exchange" /\ pc' = "cool") =>
           \E f \in LevelPermutations :
             \A l \in Levels :
               PairAt(annealerSolutions', annealerCosts', l)
                 = PairAt(annealerSolutions, annealerCosts, f[l]) ]_vars

\* C20 witness: after an exchange pass the ladder holds two different
\* pairs, the higher score at level 0, each score the objective of its
\* assignment
C20_Witness ==
  /\ pc = "cool"
  /\ LadderScored
  /\ annealerSolutions[0] # annealerSolutions[flags.a - 1]
  /\ annealerCosts[0] > annealerCosts[flags.a - 1]
  /\ annealerCosts[0] # costFunction(annealerSolutions[flags.a - 1], plusOnes)

(***************************************************************************)
(* The hand-off over the two unbuffered channels.                          *)
(***************************************************************************)

\* the program has ended: main returned or called log.Fatal
Ended == pc \in {"done", "fatal"}

\* goroutine g has been started and has not returned
Live(g) == goroutines[g].pc \in {"entry", "iter", "sendCost"}

\* C21: the hand-off never deadlocks and never mixes results.  Some step is
\* possible until the program ends; the only goroutine that has not returned
\* is the one of the level main is receiving for; the assignment and then
\* the score main stores at index i are those of that goroutine, and nothing
\* else of the ladder changes; every goroutine started completes both sends
\* and ends; none is left when anneal returns.
C21_HandOff ==
  /\ [](~Ended => ENABLED Next)
  /\ [](\A g \in Levels :
          Live(g) => (g = level /\ pc \in {"recvSol", "recvCost"}))
  /\ [](Returned => \A g \in Levels : ~Live(g))
  /\ [][ /\ (pc = "recvSol" /\ pc' # pc) =>
              /\ pc' = "recvCost"
              /\ goroutines[level].pc = "iter"
              /\ goroutines'[level].pc = "sendCost"
              /\ annealerSolutions' =
                   [annealerSolutions EXCEPT
                      ![level] = goroutines[level].updatedSolution]
              /\ annealerCosts' = annealerCosts
         /\ (pc = "recvCost" /\ pc' # pc) =>
              /\ pc' = "spawn"
              /\ goroutines[level].pc = "sendCost"
              /\ goroutines'[level].pc = "done"
              /\ annealerCosts' =
                   [annealerCosts EXCEPT
                      ![level] = goroutines[level].updatedCost]
              /\ annealerSolutions' = annealerSolutions ]_vars
  /\ \A g \in 0..(LadderSize - 1) :
       (goroutines[g].pc = "entry") ~> (goroutines[g].pc = "done")

\* C21 witness: both goroutines of a round have handed over and ended, and
\* the two levels hold different assignments
C21_Witness ==
  /\ pc = "exchange"
  /\ \A g \in Levels : goroutines[g].pc = "done"
  /\ annealerSolutions[0] # annealerSolutions[1]
  /\ annealerSolutions[0] # initialSolution

(***************************************************************************)
(* The four-person scenario: A prefers B, B prefers A, C prefers D, D has  *)
(* no preference; no companion pairs; two tables of two seats.             *)
(***************************************************************************)

\* C22: no assignment the program holds or can generate has a sumFunction
\* value above 3, the score at ladder level 0 included (that a state with
\* level 0 at 3 is reachable from the random initial assignment by swaps,
\* acceptance and exchange is C22_Witness).
C22_SumAtMostThree ==
  scenario = 1 =>
    /\ \A a \in Produced \cup NextNeighbours : sumFunction(a, plusOnes) <= 3
    /\ costFunctionPtr = "sum" => \A l \in Levels : annealerCosts[l] <= 3

\* C22 witness: after the exchange pass ladder level 0 holds an assignment
\* whose sumFunction value is 3, with A and B at one table and C and D at
\* the other, and the initial assignment scored less
C22_Witness ==
  /\ scenario = 1
  /\ costFunctionPtr = "sum"
  /\ pc = "cool"
  /\ sumFunction(annealerSolutions[0], plusOnes) = 3
  /\ annealerCosts[0] = 3
  /\ SatisfiedPairs(annealerSolutions[0]) = 3
  /\ sumFunction(initialSolution, plusOnes) < 3

====
